---- MODULE Spec2Model ----
(***************************************************************************)
(* The page-facing session layer of src/handler/page.rs: PageHandle /      *)
(* PageInner, the free function execute, execution-context resolution,     *)
(* wait_for_navigation and the evaluate wrappers, together with the        *)
(* futures mpsc mailbox (channel(1)) and the per-call oneshot completion    *)
(* channels they are built on.  The Routing Actor that drains the mailbox  *)
(* is not part of page.rs; it is modelled from its message contract.  The  *)
(* page operations built on execute (activate, click, press_key, type_str, *)
(* screenshot) are modelled as the sequences of commands they send.        *)
(***************************************************************************)
EXTENDS Integers, Sequences, FiniteSets, TLC

(* ---------------------------------------------------------------- bounds *)
NumTasks == 2
MaxCalls == 3
MaxEvents == 2
MaxPageCalls == 4

(* channel(1): the buffer of the mailbox, page.rs line 41 *)
Buffer == 1

Tasks == 1..NumTasks
Handles == {"pageA", "pageB"}
Worlds == {"Main", "Secondary"}
Methods == {"Browser.getVersion"}
RespKinds == {"result", "error", "malformed"}
(* a result that carries exception details: evaluation commands only *)
EvalRespKinds == {"result", "exception", "error"}
UserContextIds == {77}

(* Option<T> *)
None == <<>>
Some(x) == <<x>>

VARIABLES
  inner,     \* per handle: the fields target_id and session_id of its PageInner
  alive,     \* the Routing Actor (and with it every mailbox receiver) exists
  mailbox,   \* per handle: the messages queued in the mpsc channel
  parked,    \* per handle: the channel's queue of parked sender clones
  calls,     \* every primitive call made so far, indexed by its completion token
  pc,        \* per task: "idle", "flush" (suspended in send), "recv" (suspended on rx)
  op,        \* per task: the page operation in progress
  cur,       \* per task: the token of the primitive call in progress (0: none)
  ctx,       \* actor: per handle and world, the execution context id (Option)
  ctxVer,    \* actor: per handle and world, how many context events happened
  settles,   \* actor: per handle, how many navigation-settle events happened
  events,    \* number of engine events so far
  dequeued,  \* the tokens of the messages the actor took, in the order taken
  rets       \* what the page operations that returned have returned

vars == <<inner, alive, mailbox, parked, calls, pc, op, cur, ctx, ctxVer, settles,
          events, dequeued, rets>>

(* ------------------------------------------------------- handle identity *)
(* PageHandle::new(target_id, session_id) *)
TargetIdOf(h) == IF h = "pageA" THEN "targetA" ELSE "targetB"
SessionIdOf(h) == IF h = "pageA" THEN "sessionA" ELSE "sessionB"

(* PageInner::target_id / PageInner::session_id *)
target_id(h) == inner[h].target_id
session_id(h) == inner[h].session_id

(* ------------------------------------------------------------- outcomes *)
(* what a caller gets back: Result<_, CdpError>; "of" is the token the     *)
(* answer was produced for, v the carried Option value                     *)
Outcome(ok, kind, of, v) == [ok |-> ok, kind |-> kind, of |-> of, v |-> v]
NoRes == Outcome(FALSE, "none", 0, None)
(* sender.send(..).await? on a closed mailbox *)
SendErr == Outcome(FALSE, "ChannelSendError", 0, None)
(* rx.await? on a oneshot whose sender was dropped *)
CanceledErr == Outcome(FALSE, "Canceled", 0, None)
ConnLost == {SendErr, CanceledErr}

NoOp == [name |-> "none", method |-> "none", ctxArg |-> None, input |-> <<>>]
EvalOps == {"evaluate_expression", "evaluate_function"}
KeyOps == {"press_key", "type_str"}
PageOps == KeyOps \cup {"activate", "click", "screenshot"}

(* ------------------------------------------------------------ key table *)
(* keys::get_key_definition: the definitions of the keys used here; a key  *)
(* without text and with a one-character name types its name                *)
KeyNames == {"H", "i", "Enter", "Shift"}
KeyDefinitions ==
  [name \in KeyNames |->
     CASE name = "H" -> [key |-> "H", code |-> "KeyH", key_code |-> 72, text |-> None]
       [] name = "i" -> [key |-> "i", code |-> "KeyI", key_code |-> 73, text |-> None]
       [] name = "Enter" ->
            [key |-> "Enter", code |-> "Enter", key_code |-> 13, text |-> Some("\r")]
       [] OTHER ->
            [key |-> "Shift", code |-> "ShiftLeft", key_code |-> 16, text |-> None]]
get_key_definition(key) ==
  IF key \in KeyNames THEN Some(KeyDefinitions[key]) ELSE None

(* the arguments the page operations are called with: key names (one of    *)
(* them unknown), texts as their sequences of characters, a point           *)
PressedKeys == {"H", "Shift", "F25"}
TypedTexts == {<<"H", "i">>, <<"H", "~", "i">>}
Points == {[x |-> 10, y |-> 20]}

(* ------------------------------------------------------ page operations *)
(* the operations a task may start: execute(cmd) for a catalog command,    *)
(* the two context resolutions, wait_for_navigation, and the two evaluate   *)
(* wrappers with or without an explicit context id                          *)
Ops ==
  [name : {"execute"}, method : Methods, ctxArg : {None}, input : {<<>>}]
  \cup [name : {"execution_context", "secondary_execution_context",
                "wait_for_navigation"},
        method : {"none"}, ctxArg : {None}, input : {<<>>}]
  \cup [name : {"evaluate_expression"}, method : {"Runtime.evaluate"},
        ctxArg : {None} \cup {Some(c) : c \in UserContextIds}, input : {<<>>}]
  \cup [name : {"evaluate_function"}, method : {"Runtime.callFunctionOn"},
        ctxArg : {None} \cup {Some(c) : c \in UserContextIds}, input : {<<>>}]
  \cup [name : {"press_key"}, method : {"Input.dispatchKeyEvent"},
        ctxArg : {None}, input : {<<k>> : k \in PressedKeys}]
  \cup [name : {"type_str"}, method : {"Input.dispatchKeyEvent"},
        ctxArg : {None}, input : TypedTexts]
  \cup [name : {"click"}, method : {"Input.dispatchMouseEvent"},
        ctxArg : {None}, input : {<<p>> : p \in Points}]
  \cup [name : {"activate"}, method : {"Target.activateTarget"},
        ctxArg : {None}, input : {<<>>}]
  \cup [name : {"screenshot"}, method : {"Page.captureScreenshot"},
        ctxArg : {None}, input : {<<>>}]

(* execution_context resolves DOMWorldKind::Main,                          *)
(* secondary_execution_context resolves DOMWorldKind::Secondary            *)
WorldOfSwapped(name) ==
  IF name = "secondary_execution_context" THEN "Main" ELSE "Secondary"
WorldOf(name) ==
  IF name = "secondary_execution_context" THEN "Secondary" ELSE "Main"


(* ------------------------------------------------------------- messages *)
(* TargetMessage::Command(CommandMessage::with_session(cmd, tx, session)),  *)
(* TargetMessage::GetExecutionContext(GetExecutionContext{dom_world,        *)
(* frame_id: None, tx}) and TargetMessage::WaitForNavigation(tx)            *)
Msg(type, tx, session, method, ctxid, world, params) ==
  [type |-> type, tx |-> tx, session |-> session, method |-> method,
   ctxid |-> ctxid, world |-> world, params |-> params]

(* the parameters of a command besides its context id *)
NoParams == [event |-> "none"]

(* PageInner::execute passes Some(self.session_id.clone()) *)
CommandMsgUntagged(h, tx, method, ctxid, params) ==
  Msg("Command", tx, None, method, ctxid, "none", params)
CommandMsg(h, tx, method, ctxid, params) ==
  Msg("Command", tx, Some(session_id(h)), method, ctxid, "none", params)
ContextMsg(tx, world) ==
  Msg("GetExecutionContext", tx, None, "none", None, world, NoParams)
NavMsg(tx) == Msg("WaitForNavigation", tx, None, "none", None, "none", NoParams)

(* ------------------------------------------------ the mailbox (mpsc) *)
(* Sender::do_send_b pushes the message at the tail of the queue *)
EnqueueFront(q, m) == <<m>> \o q
Enqueue(q, m) == Append(q, m)

(* do_send_b parks the sending clone when the number of queued messages,  *)
(* counting its own, exceeds the buffer given to channel(1)                *)
ParkSelf(n) == n > Buffer

(* poll_flush of a Send future: ready once the clone is no longer parked,  *)
(* or the receiver is gone (a disconnected sink counts as flushed)          *)
FlushReadyAlways(h, k) == TRUE
FlushReady(h, k) ==
  \/ ~alive
  \/ \A i \in 1..Len(parked[h]) : parked[h][i] # k

(* ------------------------------------------- completion tokens (oneshot) *)
(* each call awaits the receiver of the oneshot channel it created itself *)
CompletionShared(k) == 1
CompletionPrevious(k) == IF k > 1 THEN k - 1 ELSE k
CompletionOf(k) == k

(* oneshot::Sender::send takes the sender by value: a fulfilled token is   *)
(* gone from the actor                                                      *)
TokenKept == "actor"
TokenAfterFulfil == "gone"

(* a oneshot whose sender is dropped unfulfilled completes with Canceled *)
ChanLeftOpen(chan) == chan
ChanAfterSenderDrop(chan) == IF chan = "empty" THEN "closed" ELSE chan

NewCall(h, o, f, step, after, sent) ==
  [handle |-> h, op |-> o.name, type |-> f.type, method |-> f.method,
   ctxid |-> f.ctxid, world |-> f.world, params |-> f.params,
   step |-> step, after |-> after,
   at |-> IF sent > 0 THEN "mailbox" ELSE "gone",
   chan |-> IF sent > 0 THEN "empty" ELSE "closed",
   val |-> NoRes, rx |-> sent > 0, fulfils |-> 0, sent |-> sent,
   outs |-> IF sent > 0 THEN 0 ELSE 1,
   out |-> IF sent > 0 THEN NoRes ELSE SendErr,
   regAt |-> 0]

(* to_command_response: a response frame with a result that decodes to    *)
(* T::Response, one whose result does not decode, or one with an error    *)
ToCommandResponse(val) ==
  IF val.kind = "result" THEN Outcome(TRUE, "response", val.of, val.v)
  ELSE IF val.kind = "error" THEN Outcome(FALSE, "RemoteError", val.of, None)
  ELSE Outcome(FALSE, "Serde", val.of, None)

(* what a call makes of its completed channel: rx.await? fails with       *)
(* Canceled when the sender was dropped; execute decodes the response,     *)
(* wait_for_navigation unwraps the Result<String> it was sent (the second  *)
(* `?`), a context resolution returns the Option it was sent               *)
DecodeConflated(c) ==
  IF c.chan = "closed" THEN SendErr
  ELSE IF c.val.kind = "error" THEN CanceledErr
  ELSE ToCommandResponse(c.val)
Decode(c) ==
  IF c.chan = "closed" THEN CanceledErr
  ELSE IF c.val.kind = "context" THEN Outcome(TRUE, "context", c.val.of, c.val.v)
  ELSE IF c.val.kind = "url" THEN Outcome(TRUE, "url", c.val.of, c.val.v)
  ELSE IF c.val.kind = "navError"
    THEN Outcome(FALSE, "NavigationError", c.val.of, c.val.v)
  ELSE ToCommandResponse(c.val)

(* ------------------------------------------------------- caller actions *)
Init ==
  /\ inner = [h \in Handles |->
                [target_id |-> TargetIdOf(h), session_id |-> SessionIdOf(h)]]
  /\ alive = TRUE
  /\ mailbox = [h \in Handles |-> <<>>]
  /\ parked = [h \in Handles |-> <<>>]
  /\ calls = <<>>
  /\ pc = [t \in Tasks |-> "idle"]
  /\ op = [t \in Tasks |-> NoOp]
  /\ cur = [t \in Tasks |-> 0]
  /\ ctx = [h \in Handles |-> [w \in Worlds |-> None]]
  /\ ctxVer = [h \in Handles |-> [w \in Worlds |-> 0]]
  /\ settles = [h \in Handles |-> 0]
  /\ events = 0
  /\ dequeued = <<>>
  /\ rets = {}

(* a command as a primitive call *)
Command(method, ctxid, params) ==
  [type |-> "Command", method |-> method, ctxid |-> ctxid, world |-> "none",
   params |-> params]

(* the first primitive call of execute, of a context resolution, of        *)
(* wait_for_navigation and of the evaluate wrappers                         *)
FirstCallAlwaysResolves(o) ==
  IF o.name = "execute" THEN Command(o.method, None, NoParams)
  ELSE IF o.name = "wait_for_navigation"
    THEN [type |-> "WaitForNavigation", method |-> "none", ctxid |-> None,
          world |-> "none", params |-> NoParams]
  ELSE [type |-> "GetExecutionContext", method |-> "none", ctxid |-> None,
        world |-> WorldOf(o.name), params |-> NoParams]
FirstCall(o) ==
  IF o.name = "execute" THEN Command(o.method, None, NoParams)
  ELSE IF o.name = "wait_for_navigation"
    THEN [type |-> "WaitForNavigation", method |-> "none", ctxid |-> None,
          world |-> "none", params |-> NoParams]
  ELSE IF o.name \in EvalOps /\ o.ctxArg # None
    THEN Command(o.method, o.ctxArg, NoParams)
  ELSE [type |-> "GetExecutionContext", method |-> "none", ctxid |-> None,
        world |-> WorldOf(o.name), params |-> NoParams]

MsgOf(h, k, f) ==
  IF f.type = "Command" THEN CommandMsg(h, k, f.method, f.ctxid, f.params)
  ELSE IF f.type = "GetExecutionContext" THEN ContextMsg(k, f.world)
  ELSE NavMsg(k)

(* ------------------------------------------- page-operation wrappers *)
(* Ok(self) of activate, click, press_key and type_str; Ok(bytes) of       *)
(* screenshot (the payload of an answered capture is taken to be base64)   *)
OkSelf == Outcome(TRUE, "self", 0, None)
OkBytes == Outcome(TRUE, "bytes", 0, None)
(* CdpError::msg(format!("Key not found: {}", key)) *)
KeyNotFound(key) == Outcome(FALSE, "KeyNotFound", 0, Some(key))

(* press_key: the text and the type of the down event *)
KeyText(d) ==
  IF d.text # None THEN d.text
  ELSE IF Len(d.key) = 1 THEN Some(d.key)
  ELSE None
KeyDownType(d) ==
  IF d.text # None \/ Len(d.key) = 1 THEN "keyDown" ELSE "rawKeyDown"
KeyEvent(type, d) ==
  [event |-> type, key |-> d.key, code |-> d.code,
   windows_virtual_key_code |-> d.key_code,
   native_virtual_key_code |-> d.key_code, text |-> KeyText(d)]
(* the two commands of one key press: the down event, then the up event *)
KeyEventAtSwapped(d, n) ==
  IF n = 1 THEN KeyEvent(KeyDownType(d), d) ELSE KeyEvent("keyUp", d)
KeyEventAt(d, n) ==
  IF n = 0 THEN KeyEvent(KeyDownType(d), d) ELSE KeyEvent("keyUp", d)

(* input.split("").filter(|s| !s.is_empty()): split yields an empty piece  *)
(* before the first and after the last character                            *)
Split(input) == <<"">> \o input \o <<"">>
Chars(o) ==
  IF o.name = "type_str" THEN SelectSeq(Split(o.input), LAMBDA c : c # "")
  ELSE o.input

(* click: mouseMoved at the point, then mousePressed and mouseReleased     *)
(* with the left button and click count 1                                   *)
MouseEvent(type, point) ==
  IF type = "mouseMoved"
    THEN [event |-> type, x |-> point.x, y |-> point.y, button |-> None,
          click_count |-> None]
    ELSE [event |-> type, x |-> point.x, y |-> point.y, button |-> Some("left"),
          click_count |-> Some(1)]
ClickEventAtSwapped(n) ==
  IF n = 0 THEN "mousePressed" ELSE IF n = 1 THEN "mouseMoved" ELSE "mouseReleased"
ClickEventAt(n) ==
  IF n = 0 THEN "mouseMoved" ELSE IF n = 1 THEN "mousePressed" ELSE "mouseReleased"

(* ActivateTargetParams::new(self.target_id().clone()) *)
ActivateParams(h) == [event |-> "none", target_id |-> target_id(h)]

(* what an operation does next *)
Call(f) == [do |-> "call", f |-> f, out |-> NoRes]
Return(out) == [do |-> "return", f |-> NoParams, out |-> out]

(* press_key and type_str after n answered commands: the up event of the   *)
(* key whose down event was answered; else the end of the input, or the    *)
(* look-up of the next key and its down event                               *)
KeyPlanNoLookup(o, n) ==
  LET chars == Chars(o)
      i == (n \div 2) + 1
      d == IF i <= Len(chars) /\ chars[i] \in KeyNames
             THEN KeyDefinitions[chars[i]] ELSE KeyDefinitions["H"]
  IN IF n % 2 = 0 /\ i > Len(chars) THEN Return(OkSelf)
     ELSE Call(Command(o.method, None, KeyEventAt(d, n % 2)))
KeyPlan(o, n) ==
  LET chars == Chars(o)
      i == (n \div 2) + 1
  IN IF n % 2 = 1
       THEN Call(Command(o.method, None, KeyEventAt(KeyDefinitions[chars[i]], 1)))
     ELSE IF i > Len(chars) THEN Return(OkSelf)
     ELSE IF get_key_definition(chars[i]) = None THEN Return(KeyNotFound(chars[i]))
     ELSE Call(Command(o.method, None, KeyEventAt(KeyDefinitions[chars[i]], 0)))

(* how many characters of a key input are pressed: those before the first *)
(* one without a key definition                                             *)
Pressed(chars) ==
  LET bad == {i \in 1..Len(chars) : get_key_definition(chars[i]) = None}
  IN IF bad = {} THEN Len(chars)
     ELSE (CHOOSE i \in bad : \A j \in bad : i <= j) - 1

(* click after n answered commands *)
ClickPlan(o, n) ==
  IF n < 3
    THEN Call(Command(o.method, None, MouseEvent(ClickEventAt(n), o.input[1])))
    ELSE Return(OkSelf)

(* screenshot after n answered commands: self.activate().await? first *)
ScreenshotPlanNoActivate(h, o, n) ==
  IF n = 0 THEN Call(Command(o.method, None, NoParams))
  ELSE Return(OkBytes)
ScreenshotPlan(h, o, n) ==
  IF n = 0 THEN Call(Command("Target.activateTarget", None, ActivateParams(h)))
  ELSE IF n = 1 THEN Call(Command(o.method, None, NoParams))
  ELSE Return(OkBytes)

Plan(h, o, n) ==
  IF o.name \in KeyOps THEN KeyPlan(o, n)
  ELSE IF o.name = "click" THEN ClickPlan(o, n)
  ELSE IF o.name = "screenshot" THEN ScreenshotPlan(h, o, n)
  ELSE IF n = 0 THEN Call(Command(o.method, None, ActivateParams(h)))
  ELSE Return(OkSelf)

(* how many primitive calls an operation may make *)
Need(o) ==
  IF o.name \in EvalOps /\ o.ctxArg = None THEN 2
  ELSE IF o.name \in KeyOps THEN 2 * Pressed(Chars(o))
  ELSE IF o.name = "click" THEN 3
  ELSE IF o.name = "screenshot" THEN 2
  ELSE 1

(* how an operation begins *)
Begins(h, o) == IF o.name \in PageOps THEN Plan(h, o, 0) ELSE Call(FirstCall(o))

(* what a returned operation is recorded as: its outcome and the token of  *)
(* the last primitive call it made (0: none)                                *)
Ret(h, o, last, out) == [handle |-> h, op |-> o, last |-> last, out |-> out]

(* one primitive call up to its first suspension: a fresh oneshot channel, *)
(* the message, and sender.clone().send(msg): a fresh clone is never       *)
(* parked, so the message is pushed at once; the clone is then parked if   *)
(* the queue exceeds the buffer, and the call goes on to await rx.  On a   *)
(* closed mailbox the send fails and the operation returns the error.      *)
Issue(t, cs, h, o, f, after) ==
  LET k == Len(cs) + 1
      n == Len(mailbox[h]) + 1
      step == IF after = 0 THEN 1 ELSE cs[after].step + 1
  IN IF alive
       THEN /\ calls' = Append(cs, NewCall(h, o, f, step, after, 1))
            /\ mailbox' = [mailbox EXCEPT ![h] = Enqueue(@, MsgOf(h, k, f))]
            /\ parked' = IF ParkSelf(n) THEN [parked EXCEPT ![h] = Append(@, k)]
                         ELSE parked
            /\ pc' = [pc EXCEPT ![t] = IF ParkSelf(n) THEN "flush" ELSE "recv"]
            /\ op' = [op EXCEPT ![t] = o]
            /\ cur' = [cur EXCEPT ![t] = k]
            /\ rets' = rets
       ELSE /\ calls' = Append(cs, NewCall(h, o, f, step, after, 0))
            /\ pc' = [pc EXCEPT ![t] = "idle"]
            /\ op' = [op EXCEPT ![t] = NoOp]
            /\ cur' = [cur EXCEPT ![t] = 0]
            /\ rets' = rets \cup {Ret(h, o, k, SendErr)}
            /\ UNCHANGED <<mailbox, parked>>

(* calls that operations in progress may still make *)
RECURSIVE Pending(_)
Pending(t) ==
  IF t = 0 THEN 0
  ELSE Pending(t - 1)
       + (IF pc[t] = "idle" THEN 0 ELSE Need(op[t]) - calls[cur[t]].step)
Reserved == Pending(NumTasks)

(* the calls a run may hold: the page-operation wrappers make more calls   *)
(* than the primitives                                                      *)
Budget(o) == IF o.name \in PageOps THEN MaxPageCalls ELSE MaxCalls

(* a task calls a page operation on a handle and polls it for the first   *)
(* time; idle tasks are interchangeable, so the lowest one takes the call. *)
(* An operation that fails before its first call returns at once.          *)
Start(t, h, o) ==
  /\ pc[t] = "idle"
  /\ \A u \in Tasks : u < t => pc[u] # "idle"
  /\ Len(calls) + Reserved + Need(o) <= Budget(o)
  /\ IF Begins(h, o).do = "call"
       THEN Issue(t, calls, h, o, Begins(h, o).f, 0)
       ELSE /\ rets' = rets \cup {Ret(h, o, 0, Begins(h, o).out)}
            /\ UNCHANGED <<calls, mailbox, parked, pc, op, cur>>
  /\ UNCHANGED <<inner, alive, ctx, ctxVer, settles, events, dequeued>>

(* the Send future is polled again *)
Flush(t) ==
  /\ pc[t] = "flush"
  /\ FlushReady(calls[cur[t]].handle, cur[t])
  /\ pc' = [pc EXCEPT ![t] = "recv"]
  /\ UNCHANGED <<inner, alive, mailbox, parked, calls, op, cur, ctx, ctxVer,
                 settles, events, dequeued, rets>>

(* the `?` after an awaited call: an error ends the operation *)
PropagatesNever(outcome) == FALSE
Propagates(outcome) == ~outcome.ok

(* what an operation does once a primitive call has completed: the evaluate *)
(* wrappers go on to execute the evaluation after a successful resolution,  *)
(* whatever it resolved to; everything else returns the outcome             *)
NextStepRetry(o, c, outcome) ==
  IF (o.name \in EvalOps /\ c.type = "GetExecutionContext" /\ outcome.ok)
     \/ (c.type = "Command" /\ ~outcome.ok)
    THEN "execute" ELSE "return"
NextStepNoneFails(o, c, outcome) ==
  IF o.name \in EvalOps /\ c.type = "GetExecutionContext" /\ outcome.ok
     /\ outcome.v # None
    THEN "execute" ELSE "return"
NextStep(o, c, outcome) ==
  IF o.name \in EvalOps /\ c.type = "GetExecutionContext" /\ outcome.ok
    THEN "execute"
  ELSE IF o.name \in PageOps /\ ~Propagates(outcome)
          /\ Plan(c.handle, o, c.step).do = "call"
    THEN "execute"
  ELSE "return"

(* evaluate.context_id = self.execution_context().await? *)
EvalContext(c, outcome) ==
  IF c.type = "GetExecutionContext" THEN outcome.v ELSE c.ctxid

(* the command an operation sends after the call c *)
Following(o, c, outcome) ==
  IF o.name \in PageOps THEN Plan(c.handle, o, c.step).f
  ELSE Command(o.method, EvalContext(c, outcome), NoParams)

(* if let Some(exception) = resp.exception_details: the evaluate wrappers  *)
(* turn a response with exception details into JavascriptException          *)
EvalResultIgnoresException(outcome) ==
  Outcome(TRUE, "EvaluationResult", outcome.of, None)
EvalResult(outcome) ==
  IF outcome.v # None
    THEN Outcome(FALSE, "JavascriptException", outcome.of, outcome.v)
    ELSE Outcome(TRUE, "EvaluationResult", outcome.of, None)

(* what an operation returns when it ends after the call c *)
Returns(o, c, outcome) ==
  IF o.name \in PageOps
    THEN IF Propagates(outcome) THEN outcome ELSE Plan(c.handle, o, c.step).out
  ELSE IF o.name \in EvalOps /\ c.type = "Command" /\ outcome.ok
    THEN EvalResult(outcome)
  ELSE outcome

(* rx.await completes: the call returns, and the operation goes on *)
Recv(t) ==
  /\ pc[t] = "recv"
  /\ LET k == cur[t]
         c == calls[CompletionOf(k)]
         outcome == Decode(c)
         cs == [calls EXCEPT ![k].out = outcome, ![k].outs = @ + 1,
                             ![k].rx = FALSE]
         o == op[t]
     IN /\ c.chan # "empty"
        /\ IF NextStep(o, calls[k], outcome) = "execute"
             THEN Issue(t, cs, calls[k].handle, o,
                        Following(o, calls[k], outcome), k)
             ELSE /\ calls' = cs
                  /\ pc' = [pc EXCEPT ![t] = "idle"]
                  /\ op' = [op EXCEPT ![t] = NoOp]
                  /\ cur' = [cur EXCEPT ![t] = 0]
                  /\ rets' = rets \cup {Ret(calls[k].handle, o, k,
                                            Returns(o, calls[k], outcome))}
                  /\ UNCHANGED <<mailbox, parked>>
  /\ UNCHANGED <<inner, alive, ctx, ctxVer, settles, events, dequeued>>

(* dropping a suspended future drops its Send future and its oneshot       *)
(* receiver; nothing is taken back from the mailbox                         *)
RetractOnDrop(q, k) == SelectSeq(q, LAMBDA m : m.tx # k)
QueueAfterDrop(q, k) == q

Cancel(t) ==
  /\ pc[t] \in {"flush", "recv"}
  /\ calls' = [calls EXCEPT ![cur[t]].rx = FALSE]
  /\ mailbox' = [mailbox EXCEPT ![calls[cur[t]].handle] = QueueAfterDrop(@, cur[t])]
  /\ pc' = [pc EXCEPT ![t] = "idle"]
  /\ op' = [op EXCEPT ![t] = NoOp]
  /\ cur' = [cur EXCEPT ![t] = 0]
  /\ UNCHANGED <<inner, alive, parked, ctx, ctxVer, settles, events, dequeued,
                 rets>>

(* --------------------------------------------------- the Routing Actor *)
(* oneshot::Sender::send: stores the value unless the receiver was dropped, *)
(* in which case the value is handed back and nothing else happens          *)
Fulfil(c, val) ==
  IF c.rx
    THEN [c EXCEPT !.chan = "full", !.val = val, !.fulfils = @ + 1,
                   !.at = TokenAfterFulfil]
    ELSE [c EXCEPT !.fulfils = @ + 1, !.at = TokenAfterFulfil]

(* the token is dropped without an answer *)
DropToken(c) == [c EXCEPT !.chan = ChanAfterSenderDrop(@), !.at = "gone"]

(* Receiver::next_message: pop the head, wake the longest-parked sender *)
UnparkNone(q) == q
UnparkOne(q) == IF q = <<>> THEN q ELSE Tail(q)

(* the actor takes the next message of a handle's mailbox: a command is    *)
(* recorded as pending, a navigation wait is registered, a context query   *)
(* is answered from the frame bookkeeping                                   *)
ActorRecv(h) ==
  /\ alive
  /\ mailbox[h] # <<>>
  /\ LET m == Head(mailbox[h])
         k == m.tx
     IN /\ mailbox' = [mailbox EXCEPT ![h] = Tail(@)]
        /\ parked' = [parked EXCEPT ![h] = UnparkOne(@)]
        /\ dequeued' = Append(dequeued, k)
        /\ calls' =
             IF m.type = "Command"
               THEN [calls EXCEPT ![k].at = "actor"]
             ELSE IF m.type = "WaitForNavigation"
               THEN [calls EXCEPT ![k].at = "actor", ![k].regAt = settles[h]]
             ELSE [calls EXCEPT
                     ![k] = Fulfil([@ EXCEPT !.regAt = ctxVer[h][m.world]],
                                   Outcome(TRUE, "context", k, ctx[h][m.world]))]
  /\ UNCHANGED <<inner, alive, pc, op, cur, ctx, ctxVer, settles, events, rets>>

(* the response frame for command k: a result, possibly with exception   *)
(* details (identified by their exception id), or an error                 *)
ExceptionIds == {13}
Frame(k, kind) ==
  IF kind = "exception"
    THEN Outcome(TRUE, "result", k, Some(CHOOSE e \in ExceptionIds : TRUE))
    ELSE Outcome(TRUE, kind, k, None)

(* a response frame for a pending command arrives and its token is fulfilled *)
ActorRespond(k, kind) ==
  /\ alive
  /\ k \in 1..Len(calls)
  /\ calls[k].at = "actor"
  /\ calls[k].type = "Command"
  /\ kind = "exception" => calls[k].op \in EvalOps
  /\ calls' = [calls EXCEPT ![k] = Fulfil(@, Frame(k, kind))]
  /\ UNCHANGED <<inner, alive, mailbox, parked, pc, op, cur, ctx, ctxVer,
                 settles, events, dequeued, rets>>

(* the actor drops a token it holds without answering *)
ActorDropToken(k) ==
  /\ alive
  /\ k \in 1..Len(calls)
  /\ calls[k].at = "actor"
  /\ calls' = [calls EXCEPT ![k] = DropToken(@)]
  /\ UNCHANGED <<inner, alive, mailbox, parked, pc, op, cur, ctx, ctxVer,
                 settles, events, dequeued, rets>>

(* a navigation of the handle's page settles (with its url, or failing):   *)
(* every wait registered for the handle at that moment is fulfilled         *)
NavSettle(h, kind) ==
  /\ alive
  /\ events < MaxEvents
  /\ calls' = [k \in DOMAIN calls |->
                 IF /\ calls[k].type = "WaitForNavigation"
                    /\ calls[k].handle = h
                    /\ calls[k].at = "actor"
                   THEN Fulfil(calls[k], Outcome(TRUE, kind, k, Some(settles[h] + 1)))
                   ELSE calls[k]]
  /\ settles' = [settles EXCEPT ![h] = @ + 1]
  /\ events' = events + 1
  /\ UNCHANGED <<inner, alive, mailbox, parked, pc, op, cur, ctx, ctxVer,
                 dequeued, rets>>

(* the engine creates / destroys the execution context of a world *)
CtxCreated(h, w) ==
  /\ alive
  /\ events < MaxEvents
  /\ ctx[h][w] = None
  /\ ctx' = [ctx EXCEPT ![h][w] = Some(events + 1)]
  /\ ctxVer' = [ctxVer EXCEPT ![h][w] = @ + 1]
  /\ events' = events + 1
  /\ UNCHANGED <<inner, alive, mailbox, parked, calls, pc, op, cur, settles,
                 dequeued, rets>>

CtxDestroyed(h, w) ==
  /\ alive
  /\ events < MaxEvents
  /\ ctx[h][w] # None
  /\ ctx' = [ctx EXCEPT ![h][w] = None]
  /\ ctxVer' = [ctxVer EXCEPT ![h][w] = @ + 1]
  /\ events' = events + 1
  /\ UNCHANGED <<inner, alive, mailbox, parked, calls, pc, op, cur, settles,
                 dequeued, rets>>

(* Receiver::close, run when the receiver is dropped, wakes every parked sender *)
ParkedAfterClose(q) == <<>>

(* the actor is dropped: every mailbox receiver is closed and drained, and *)
(* every token queued or held is dropped unanswered                         *)
ActorDrop ==
  /\ alive
  /\ alive' = FALSE
  /\ mailbox' = [h \in Handles |-> <<>>]
  /\ parked' = [h \in Handles |-> ParkedAfterClose(parked[h])]
  /\ calls' = [k \in DOMAIN calls |->
                 IF calls[k].at \in {"mailbox", "actor"} THEN DropToken(calls[k])
                 ELSE calls[k]]
  /\ UNCHANGED <<inner, pc, op, cur, ctx, ctxVer, settles, events, dequeued,
                 rets>>

(* ---------------------------------------------------- specifications *)
(* the operations callers use in a run *)
Primitives ==
  {o \in Ops : o.name \in {"execute", "execution_context", "wait_for_navigation"}}
Executes == {o \in Ops : o.name = "execute"}
Waits == {o \in Ops : o.name = "wait_for_navigation"}
Resolves ==
  {o \in Ops : o.name \in {"execution_context", "secondary_execution_context"}}
Evaluates == {o \in Ops : o.name \in EvalOps}
Presses == {o \in Ops : o.name \in KeyOps}
Clicks == {o \in Ops : o.name = "click"}
Activates == {o \in Ops : o.name = "activate"}
Screenshots == {o \in Ops : o.name = "screenshot"}

Callers(hs, menu) ==
  \/ \E t \in Tasks, h \in hs, o \in menu : Start(t, h, o)
  \/ \E t \in Tasks : Flush(t)
  \/ \E t \in Tasks : Recv(t)
  \/ \E t \in Tasks : Cancel(t)

Takes(hs) == \E h \in hs : ActorRecv(h)
RespondsWith(kinds) ==
  \E k \in 1..Len(calls), kind \in kinds : ActorRespond(k, kind)
Responds == RespondsWith(RespKinds)
DropsToken == \E k \in 1..Len(calls) : ActorDropToken(k)
Actor(hs) == Takes(hs) \/ Responds \/ DropsToken \/ ActorDrop

Navigation(hs) == \E h \in hs, kind \in {"url", "navError"} : NavSettle(h, kind)

Contexts(hs, ws) ==
  \/ \E h \in hs, w \in ws : CtxCreated(h, w)
  \/ \E h \in hs, w \in ws : CtxDestroyed(h, w)

(* one page: execute, context resolution and navigation waits together *)
Next == Callers({"pageA"}, Primitives) \/ Actor({"pageA"}) \/ Navigation({"pageA"})
Spec == Init /\ [][Next]_vars

(* two pages of one actor, commands only *)
NextExec == Callers(Handles, Executes) \/ Actor(Handles)
SpecExec == Init /\ [][NextExec]_vars

(* navigation waits and settle events *)
NextNav ==
  \/ Callers({"pageA"}, Waits)
  \/ Takes({"pageA"}) \/ DropsToken \/ ActorDrop
  \/ Navigation({"pageA"})
SpecNav == Init /\ [][NextNav]_vars

(* context resolution of both worlds and context events *)
NextCtx ==
  \/ Callers({"pageA"}, Resolves)
  \/ Takes({"pageA"}) \/ ActorDrop
  \/ Contexts({"pageA"}, Worlds)
SpecCtx == Init /\ [][NextCtx]_vars

(* the evaluate wrappers *)
NextEval ==
  Callers({"pageA"}, Evaluates) \/ Actor({"pageA"}) \/ Contexts({"pageA"}, {"Main"})
SpecEval == Init /\ [][NextEval]_vars

(* both pages and all three primitives, with an actor that takes messages *)
(* and is dropped before it answers a command or a navigation wait; a task *)
(* whose Send future or completion channel became ready is polled again by *)
(* its executor                                                             *)
NextLost == Callers(Handles, Primitives) \/ Takes(Handles) \/ ActorDrop
FairSpec ==
  /\ Init /\ [][NextLost]_vars
  /\ \A t \in Tasks : WF_vars(Flush(t)) /\ WF_vars(Recv(t))

(* the evaluate wrappers with responses that may carry exception details *)
EvalResponds == RespondsWith(EvalRespKinds)
NextExc ==
  \/ Callers({"pageA"}, Evaluates)
  \/ Takes({"pageA"}) \/ EvalResponds \/ DropsToken \/ ActorDrop
SpecExc == Init /\ [][NextExc]_vars

(* press_key and type_str *)
NextKeys == Callers({"pageA"}, Presses) \/ Actor({"pageA"})
SpecKeys == Init /\ [][NextKeys]_vars

(* click, next to activate *)
NextClick == Callers({"pageA"}, Clicks \cup Activates) \/ Actor({"pageA"})
SpecClick == Init /\ [][NextClick]_vars

(* screenshot *)
NextShot == Callers({"pageA"}, Screenshots) \/ Actor({"pageA"})
SpecShot == Init /\ [][NextShot]_vars

(* two pages, with the primitives and a page operation on each *)
NextAll ==
  \/ Callers(Handles, Primitives \cup Screenshots)
  \/ Takes(Handles) \/ RespondsWith({"result", "error"}) \/ ActorDrop
SpecAll == Init /\ [][NextAll]_vars

(* one page and all three primitives, with an actor that stays: it keeps  *)
(* taking the messages of its mailbox and in the end answers or drops      *)
(* every token it holds; the callers' executor polls a task again once its *)
(* Send future or its completion channel became ready                      *)
Settles(k) == ActorDropToken(k) \/ \E kind \in {"result"} : ActorRespond(k, kind)
NextLive ==
  \/ Callers({"pageA"}, Primitives)
  \/ Takes({"pageA"})
  \/ \E k \in 1..MaxCalls : Settles(k)
  \/ NavSettle("pageA", "url")
LiveSpec ==
  /\ Init /\ [][NextLive]_vars
  /\ \A t \in Tasks : WF_vars(Flush(t)) /\ WF_vars(Recv(t))
  /\ WF_vars(ActorRecv("pageA"))
  /\ \A k \in 1..MaxCalls : WF_vars(Settles(k))

(* ------------------------------------------------------------ properties *)
Calls == 1..Len(calls)
IsCommand(k) == calls[k].type = "Command"
IsWait(k) == calls[k].type = "WaitForNavigation"
IsResolve(k) == calls[k].type = "GetExecutionContext"
(* the call returned what its completion channel delivered *)
Returned(k) == calls[k].sent = 1 /\ calls[k].outs = 1
(* the caller dropped its future before the call returned *)
Discarded(k) == calls[k].sent = 1 /\ calls[k].outs = 0 /\ ~calls[k].rx
(* position of token k in a sequence of tokens (0: absent) *)
Pos(q, k) ==
  IF \E i \in 1..Len(q) : q[i] = k
    THEN CHOOSE i \in 1..Len(q) : q[i] = k
    ELSE 0
Queued(h) == [i \in 1..Len(mailbox[h]) |-> mailbox[h][i].tx]

(* C1: each execute call returns the answer the actor gave for its own    *)
(* command, never the answer to another call's command, whatever the      *)
(* order in which the actor answers concurrent calls of one handle.        *)
C1_OwnAnswer ==
  \A k \in Calls :
    (IsCommand(k) /\ Returned(k)) =>
      /\ calls[k].out = Decode(calls[k])
      /\ calls[k].out.kind \in {"response", "RemoteError", "Serde"} =>
           /\ calls[k].out.of = k
           /\ calls[k].fulfils = 1

(* two calls in flight on one handle, the later one answered and returned *)
(* while the earlier one is still pending at the actor                     *)
C1_Witness ==
  \E i, j \in Calls :
    /\ i < j
    /\ calls[i].handle = calls[j].handle
    /\ IsCommand(i) /\ IsCommand(j)
    /\ calls[i].at = "actor" /\ calls[i].chan = "empty" /\ calls[i].rx
    /\ Returned(j) /\ calls[j].out.kind = "response" /\ calls[j].out.of = j

(* C2: a completion token is fulfilled at most once, and the caller        *)
(* observes at most one outcome for its call.                              *)
C2_AtMostOnce ==
  \A k \in Calls : calls[k].fulfils <= 1 /\ calls[k].outs <= 1

(* a command that was fulfilled once and whose caller observed the answer *)
C2_Witness ==
  \E k \in Calls :
    IsCommand(k) /\ calls[k].fulfils = 1 /\ calls[k].outs = 1
    /\ calls[k].out.kind = "response"

(* C3: once the actor is dropped, every call that is outstanding and was  *)
(* not answered (queued, parked at its send, or waiting on its completion  *)
(* channel) eventually returns a connection-lost error unless its caller   *)
(* drops it, and every call issued afterwards fails at its send with a     *)
(* connection-lost error without queueing anything.                         *)
Unanswered(k) ==
  /\ k \in Calls
  /\ calls[k].sent = 1 /\ calls[k].outs = 0 /\ calls[k].rx
  /\ calls[k].chan # "full"
C3_NoHang ==
  /\ \A k \in 1..MaxCalls :
       (~alive /\ Unanswered(k)) ~>
         (k \in Calls /\ (calls[k].out \in ConnLost \/ Discarded(k)))
  /\ [][~alive =>
          /\ mailbox' = mailbox
          /\ \A k \in 1..Len(calls') :
               k > Len(calls) => (calls'[k].sent = 0 /\ calls'[k].out = SendErr)
       ]_vars

(* after the drop: a command that was still queued and a navigation wait  *)
(* held by the actor both returned Canceled, and a call issued afterwards  *)
(* on the other page failed at its send                                     *)
C3_Witness ==
  /\ ~alive
  /\ \E i, j, k \in Calls :
       /\ IsCommand(i) /\ calls[i].out = CanceledErr /\ Pos(dequeued, i) = 0
       /\ IsWait(j) /\ calls[j].out = CanceledErr /\ Pos(dequeued, j) # 0
       /\ calls[k].sent = 0 /\ calls[k].out = SendErr
       /\ calls[k].handle # calls[i].handle

(* C4: the actor takes the Command messages of one handle in the order    *)
(* the calls were issued: tokens are numbered in issue order, and on each  *)
(* handle the tokens taken so far, followed by the tokens still queued,    *)
(* are in increasing order.                                                *)
C4_Fifo ==
  \A i, j \in Calls :
    (i < j /\ calls[i].handle = calls[j].handle
       /\ calls[i].sent = 1 /\ calls[j].sent = 1) =>
      LET h == calls[i].handle
      IN /\ Pos(dequeued, j) # 0 =>
              (Pos(dequeued, i) # 0 /\ Pos(dequeued, i) < Pos(dequeued, j))
         /\ Pos(Queued(h), j) # 0 =>
              (Pos(dequeued, i) # 0 \/ calls[i].at # "mailbox" \/
               (Pos(Queued(h), i) # 0 /\ Pos(Queued(h), i) < Pos(Queued(h), j)))

(* two calls of concurrent tasks queued behind each other on one handle   *)
(* after an earlier call of that handle was taken                          *)
C4_Witness ==
  \E h \in Handles :
    /\ Len(mailbox[h]) >= 2
    /\ \E k \in Calls : calls[k].handle = h /\ Pos(dequeued, k) # 0
    /\ \E t, u \in Tasks :
         t # u /\ pc[t] # "idle" /\ pc[u] # "idle"
         /\ Pos(Queued(h), cur[t]) # 0 /\ Pos(Queued(h), cur[u]) # 0

(* C5 as stated: the mailbox holds at most one message of a handle that   *)
(* the actor has not yet accepted.                                         *)
C5_CapacityOne == \A h \in Handles : Len(mailbox[h]) <= Buffer

(* C5 as amended: every call pushes its message in its first poll through *)
(* its own clone of the sender, so any number of messages, one per call,   *)
(* can be queued; exactly the senders of the messages queued behind the    *)
(* first Buffer ones are parked, and a caller gets past the send only      *)
(* when its clone is no longer parked (its message has moved up to the     *)
(* buffer or was accepted) or the mailbox is closed.                       *)
C5_ParkedBehindBuffer ==
  \A h \in Handles :
    /\ \A i, j \in 1..Len(mailbox[h]) :
         mailbox[h][i].tx = mailbox[h][j].tx => i = j
    /\ parked[h] = SubSeq(Queued(h), Buffer + 1, Len(mailbox[h]))
    /\ \A t \in Tasks :
         (pc[t] = "recv" /\ calls[cur[t]].handle = h) =>
           Pos(parked[h], cur[t]) = 0

(* three messages queued at once, the caller of the last still suspended  *)
(* at its send                                                             *)
C5_Witness ==
  \E h \in Handles, t \in Tasks :
    /\ Len(mailbox[h]) = 3
    /\ pc[t] = "flush"
    /\ Pos(parked[h], cur[t]) # 0
    /\ \E u \in Tasks : u # t /\ pc[u] = "recv"

(* C6: navigation waits registered with the actor before a settle event   *)
(* each receive exactly one outcome, that of the first settle event after  *)
(* their registration; a wait registered after a settle event never        *)
(* observes that event's outcome: it stays registered until a later        *)
(* settle event, or fails with a connection-lost error.                    *)
C6_NextSettleOnly ==
  \A k \in Calls :
    IsWait(k) =>
      LET h == calls[k].handle
      IN /\ calls[k].fulfils <= 1 /\ calls[k].outs <= 1
         /\ calls[k].at = "actor" =>
              (calls[k].regAt = settles[h] /\ calls[k].fulfils = 0)
         /\ calls[k].fulfils = 1 => calls[k].regAt < settles[h]
         /\ Returned(k) =>
              \/ calls[k].out \in ConnLost
              \/ /\ calls[k].out.kind \in {"url", "NavigationError"}
                 /\ calls[k].out.of = k
                 /\ calls[k].out.v = Some(calls[k].regAt + 1)
                 /\ calls[k].fulfils = 1

(* two concurrent waits registered before the first settle event both     *)
(* returned its url, and a third wait registered after it is suspended    *)
C6_Witness ==
  \E i, j, k \in Calls :
    /\ i < j /\ j < k
    /\ IsWait(i) /\ IsWait(j) /\ IsWait(k)
    /\ calls[i].regAt = 0 /\ calls[j].regAt = 0
    /\ Returned(i) /\ calls[i].out.kind = "url" /\ calls[i].out.v = Some(1)
    /\ Returned(j) /\ calls[j].out.kind = "url" /\ calls[j].out.v = Some(1)
    /\ calls[k].regAt = 1 /\ calls[k].at = "actor" /\ calls[k].chan = "empty"
    /\ \E t \in Tasks : cur[t] = k /\ pc[t] = "recv"

(* C7: resolving a world's execution context succeeds with None while the *)
(* world has no context and with its id once it was created; resolutions   *)
(* of one world with no context event between them return the same value.  *)
IntendedWorld(name) ==
  IF name = "secondary_execution_context" THEN "Secondary" ELSE "Main"
C7_ContextResolution ==
  \A k \in Calls :
    (IsResolve(k) /\ calls[k].chan = "full") =>
      LET h == calls[k].handle
          w == IntendedWorld(calls[k].op)
      IN /\ calls[k].val.kind = "context"
         /\ (calls[k].val.v = None) <=> (calls[k].regAt % 2 = 0)
         /\ calls[k].regAt = ctxVer[h][w] => calls[k].val.v = ctx[h][w]
         /\ Returned(k) =>
              /\ calls[k].out.ok
              /\ calls[k].out.v = calls[k].val.v
         /\ \A j \in Calls :
              (IsResolve(j) /\ calls[j].chan = "full"
                 /\ calls[j].handle = h /\ IntendedWorld(calls[j].op) = w
                 /\ calls[j].regAt = calls[k].regAt) =>
                calls[j].val.v = calls[k].val.v

(* a resolution that returned None before the creation event and two      *)
(* later ones that returned the same id                                    *)
C7_Witness ==
  \E i, j, k \in Calls :
    /\ i < j /\ j < k
    /\ IsResolve(i) /\ IsResolve(j) /\ IsResolve(k)
    /\ calls[i].op = calls[j].op /\ calls[j].op = calls[k].op
    /\ Returned(i) /\ calls[i].out.ok /\ calls[i].out.v = None
    /\ Returned(j) /\ calls[j].out.ok /\ calls[j].out.v # None
    /\ Returned(k) /\ calls[k].out.v = calls[j].out.v

(* C8: dropping a suspended call's future affects that call alone: the    *)
(* message stays where it is (queued or with the actor) and no message is  *)
(* added; when the actor later fulfils the discarded channel nothing is    *)
(* delivered, the actor goes on, and no other call's outcome changes or    *)
(* carries that answer.                                                     *)
C8_DropIsLocal ==
  [][/\ \A t \in Tasks :
          (pc[t] \in {"flush", "recv"} /\ pc'[t] = "idle"
             /\ calls'[cur[t]].outs = 0) =>
            /\ mailbox' = mailbox /\ dequeued' = dequeued /\ alive' = alive
            /\ Len(calls') = Len(calls)
            /\ calls'[cur[t]].at = calls[cur[t]].at
            /\ \A j \in Calls : j # cur[t] => calls'[j] = calls[j]
     /\ \A k \in Calls :
          (Discarded(k) /\ calls'[k].fulfils > calls[k].fulfils) =>
            /\ alive'
            /\ calls'[k].chan = calls[k].chan
            /\ calls'[k].val = calls[k].val
            /\ calls'[k].outs = 0
            /\ \A j \in Calls :
                 j # k => /\ calls'[j].out = calls[j].out
                          /\ calls'[j].val.of \in {0, j}
     /\ \A k \in Calls :
          (calls[k].outs = 0 /\ calls'[k].outs = 1) => calls'[k].out.of \in {0, k}
    ]_vars

(* the actor has fulfilled a discarded completion channel, and another    *)
(* call has returned its own answer                                        *)
C8_Witness ==
  \E k, j \in Calls :
    /\ k # j
    /\ Discarded(k) /\ calls[k].fulfils = 1 /\ calls[k].chan = "empty"
    /\ Pos(dequeued, k) # 0
    /\ Returned(j) /\ calls[j].out.ok /\ calls[j].out.of = j
    /\ alive

(* C9: no call is resubmitted: a token is put on the mailbox at most once, *)
(* and a call follows another call of the same operation only as the       *)
(* evaluation command after a successful context resolution.                *)
Occurrences(q, k) == Cardinality({i \in 1..Len(q) : q[i] = k})
C9_NoRetry ==
  \A k \in Calls :
    /\ Occurrences(Queued(calls[k].handle), k) + Occurrences(dequeued, k)
         <= calls[k].sent
    /\ calls[k].sent <= 1
    /\ calls[k].after # 0 =>
         /\ calls[k].op \in EvalOps
         /\ IsCommand(k)
         /\ IsResolve(calls[k].after)
         /\ calls[calls[k].after].out.ok
         /\ calls[calls[k].after].after = 0
    /\ calls[k].op \notin EvalOps => calls[k].after = 0

(* three commands failed, with a remote error, a decode error and a       *)
(* dropped token, and nothing is queued or in progress afterwards          *)
C9_Witness ==
  /\ \E i, j, k \in Calls :
       /\ IsCommand(i) /\ calls[i].out.kind = "RemoteError"
       /\ IsCommand(j) /\ calls[j].out.kind = "Serde"
       /\ IsCommand(k) /\ calls[k].out.kind = "Canceled"
  /\ \A t \in Tasks : pc[t] = "idle"
  /\ \A h \in Handles : mailbox[h] = <<>>

(* C10 as stated: an evaluate wrapper called without a context id sends   *)
(* no evaluation command when the resolution yields None.                  *)
C10_NoCommandWithoutContext ==
  \A k \in Calls :
    (IsCommand(k) /\ calls[k].op \in EvalOps /\ calls[k].sent = 1) =>
      calls[k].ctxid # None

(* C10 as amended: after a successful resolution, whatever it yields, the *)
(* wrapper sends the evaluation command exactly once, carrying the         *)
(* resolved value as its context id (none when the resolution yielded      *)
(* None); the resolution is made once, for the Main world, and only a      *)
(* failed resolution ends the operation without an evaluation command.     *)
Successors(r) == {k \in Calls : calls[k].after = r}
C10_EvaluatesWithResolved ==
  \A r \in Calls :
    (IsResolve(r) /\ calls[r].op \in EvalOps) =>
      /\ calls[r].after = 0
      /\ calls[r].world = "Main"
      /\ (Returned(r) /\ calls[r].out.ok) =>
           /\ Cardinality(Successors(r)) = 1
           /\ \A k \in Successors(r) :
                IsCommand(k) /\ calls[k].ctxid = calls[r].out.v
      /\ ~(Returned(r) /\ calls[r].out.ok) => Successors(r) = {}

(* an evaluation without a context id was sent after a resolution that    *)
(* yielded None, and returned a response                                   *)
C10_Witness ==
  \E k \in Calls :
    /\ IsCommand(k) /\ calls[k].op \in EvalOps
    /\ calls[k].after # 0
    /\ calls[calls[k].after].out.v = None
    /\ calls[k].ctxid = None
    /\ Returned(k) /\ calls[k].out.kind = "response"

(* what the operation whose last primitive call was k returned *)
RetsOf(k) == {r \in rets : r.last = k}
HasDetails(k) ==
  calls[k].chan = "full" /\ calls[k].val.kind = "result" /\ calls[k].val.v # None
NoDetails(k) ==
  calls[k].chan = "full" /\ calls[k].val.kind = "result" /\ calls[k].val.v = None

(* C11: an evaluate wrapper whose evaluation command was answered with a  *)
(* result carrying exception details returns JavascriptException with      *)
(* those details, and one answered with a result without exception         *)
(* details returns a success value; the script exception is returned in    *)
(* no other case.                                                           *)
C11_ExceptionPromoted ==
  \A k \in Calls :
    (IsCommand(k) /\ calls[k].op \in EvalOps /\ Returned(k)) =>
      /\ Cardinality(RetsOf(k)) = 1
      /\ \A r \in RetsOf(k) :
           /\ r.op.name = calls[k].op
           /\ HasDetails(k) =>
                r.out = Outcome(FALSE, "JavascriptException", k, calls[k].val.v)
           /\ NoDetails(k) =>
                r.out = Outcome(TRUE, "EvaluationResult", k, None)
           /\ r.out.kind = "JavascriptException" => HasDetails(k)
           /\ r.out.ok => NoDetails(k)

(* one evaluation returned the script exception of its response and       *)
(* another one returned a success value                                     *)
C11_Witness ==
  \E r, q \in rets :
    /\ r.op.name \in EvalOps /\ q.op.name \in EvalOps
    /\ r.out.kind = "JavascriptException"
    /\ r.out.v \in {Some(e) : e \in ExceptionIds}
    /\ q.out.kind = "EvaluationResult" /\ q.out.ok

(* C12: execute reports each of its three failure conditions by its own   *)
(* kind: a send on a closed mailbox fails with the send error, a           *)
(* completion channel dropped unanswered with Canceled, and a remote       *)
(* protocol error delivered through the completion channel with the        *)
(* remote error; none of the three is reported as another, and the         *)
(* operation returns what the call produced.                                *)
C12_FailureKinds ==
  \A k \in Calls :
    (calls[k].op = "execute" /\ calls[k].outs = 1) =>
      /\ calls[k].sent = 0 <=> calls[k].out.kind = "ChannelSendError"
      /\ (calls[k].sent = 1 /\ calls[k].chan = "closed")
           <=> calls[k].out.kind = "Canceled"
      /\ (calls[k].chan = "full" /\ calls[k].val.kind = "error")
           <=> calls[k].out.kind = "RemoteError"
      /\ calls[k].out.kind = "ChannelSendError" =>
           (calls[k].fulfils = 0 /\ Pos(dequeued, k) = 0)
      /\ calls[k].out.kind = "Canceled" => calls[k].fulfils = 0
      /\ calls[k].out.kind = "RemoteError" => calls[k].fulfils = 1
      /\ RetsOf(k) = {Ret(calls[k].handle, [NoOp EXCEPT !.name = "execute",
                                              !.method = calls[k].method],
                          k, calls[k].out)}

(* three execute calls have failed, one in each of the three ways *)
C12_Witness ==
  \E i, j, k \in Calls :
    /\ calls[i].op = "execute" /\ calls[i].out.kind = "RemoteError"
    /\ calls[j].op = "execute" /\ calls[j].out.kind = "Canceled"
    /\ calls[j].sent = 1 /\ Pos(dequeued, j) # 0
    /\ calls[k].op = "execute" /\ calls[k].out.kind = "ChannelSendError"
    /\ calls[k].sent = 0

(* the tokens of the calls an operation made, in order, given its last one *)
RECURSIVE Chain(_)
Chain(k) == IF k = 0 THEN <<>> ELSE Append(Chain(calls[k].after), k)
(* call k dispatched the down (phase 1) or up (phase 2) event of the key   *)
(* named name                                                               *)
IsKeyCommand(k, name, phase) ==
  /\ IsCommand(k) /\ calls[k].method = "Input.dispatchKeyEvent"
  /\ calls[k].params.event \in
       (IF phase = 1 THEN {"keyDown", "rawKeyDown"} ELSE {"keyUp"})
  /\ calls[k].params.key = KeyDefinitions[name].key
  /\ calls[k].params.code = KeyDefinitions[name].code
  /\ calls[k].params.windows_virtual_key_code = KeyDefinitions[name].key_code
  /\ calls[k].params.native_virtual_key_code = KeyDefinitions[name].key_code
IsKeyEvent(k, name, phase) == IsKeyCommand(k, name, phase) /\ calls[k].sent = 1
(* the calls of ch are the complete presses of the first n keys of input, *)
(* each sent after the previous one was answered successfully               *)
PressesOf(ch, input, n) ==
  /\ Len(ch) >= 2 * n
  /\ \A i \in 1..n :
       IsKeyEvent(ch[2 * i - 1], input[i], 1) /\ IsKeyEvent(ch[2 * i], input[i], 2)
  /\ \A j \in 1..(2 * n) :
       /\ j > 1 => ch[j - 1] < ch[j]
       /\ j < Len(ch) => (Returned(ch[j]) /\ calls[ch[j]].out.ok)

(* C13: a press_key or type_str that succeeds on an input of n known keys *)
(* has dispatched exactly 2n key events: for each key in input order its   *)
(* down event and then its up event, both carrying the key, code and       *)
(* virtual key codes of that key's definition.                             *)
C13_DownThenUp ==
  \A r \in rets :
    (r.op.name \in KeyOps /\ r.out.ok) =>
      /\ \A i \in 1..Len(r.op.input) : r.op.input[i] \in KeyNames
      /\ Len(Chain(r.last)) = 2 * Len(r.op.input)
      /\ PressesOf(Chain(r.last), r.op.input, Len(r.op.input))
      /\ \A k \in Calls : calls[k].after # r.last
      /\ Returned(r.last) /\ calls[r.last].out.ok

(* type_str("Hi") has returned successfully and the actor took its four   *)
(* commands                                                                 *)
C13_Witness ==
  \E r \in rets :
    /\ r.op.name = "type_str" /\ r.op.input = <<"H", "i">> /\ r.out.ok
    /\ Len(dequeued) = 4
    /\ calls[dequeued[1]].params.key = "H" /\ calls[dequeued[4]].params.key = "i"
    /\ calls[dequeued[4]].params.event = "keyUp"

(* C14: press_key with a key name that has no definition returns the      *)
(* key-not-found error in the step in which it is called: that step puts   *)
(* no message on any mailbox and makes no call, and no press_key of an     *)
(* unknown key is ever suspended on a call.                                 *)
UnknownPress(o) == o.name = "press_key" /\ o.input[1] \notin KeyNames
C14_NotFoundBeforeAnyCall ==
  /\ [](\A t \in Tasks : pc[t] # "idle" => ~UnknownPress(op[t]))
  /\ [](\A r \in rets :
          UnknownPress(r.op) => (r.last = 0 /\ r.out = KeyNotFound(r.op.input[1])))
  /\ [][\A r \in rets' \ rets :
          UnknownPress(r.op) =>
            /\ mailbox' = mailbox /\ parked' = parked
            /\ calls' = calls /\ dequeued' = dequeued
            /\ pc' = pc
       ]_vars

(* press_key of an unknown key has failed on a fresh handle: nothing was  *)
(* ever sent                                                                *)
C14_Witness ==
  /\ \E r \in rets : UnknownPress(r.op) /\ r.out.kind = "KeyNotFound"
  /\ calls = <<>>
  /\ \A h \in Handles : mailbox[h] = <<>>

(* call k was made by its operation after call j was answered successfully *)
FollowsAnswered(k, j) ==
  /\ j \in Calls /\ j < k
  /\ calls[j].op = calls[k].op /\ calls[j].handle = calls[k].handle
  /\ calls[j].step + 1 = calls[k].step
  /\ Returned(j) /\ calls[j].out.ok /\ calls[j].fulfils = 1
(* a failed operation returned the error of its last call and sent        *)
(* nothing after it                                                         *)
FailedAt(r) ==
  /\ r.last \in Calls
  /\ r.out = calls[r.last].out
  /\ calls[r.last].outs = 1
  /\ \A k \in Calls : calls[k].after # r.last

(* C15: click sends mouseMoved, mousePressed, mouseReleased in this order, *)
(* each after the previous one was answered successfully, the last two     *)
(* with the left button and click count 1; a failed step ends the click    *)
(* with that step's error and no later command of the click is sent.       *)
ClickEvents == <<"mouseMoved", "mousePressed", "mouseReleased">>
C15_ClickInOrder ==
  /\ \A k \in Calls :
       calls[k].op = "click" =>
         /\ calls[k].step \in 1..3
         /\ IsCommand(k) /\ calls[k].method = "Input.dispatchMouseEvent"
         /\ calls[k].params.event = ClickEvents[calls[k].step]
         /\ calls[k].step > 1 =>
              /\ FollowsAnswered(k, calls[k].after)
              /\ calls[k].params.button = Some("left")
              /\ calls[k].params.click_count = Some(1)
              /\ calls[k].params.x = calls[calls[k].after].params.x
              /\ calls[k].params.y = calls[calls[k].after].params.y
         /\ calls[k].step = 1 => calls[k].after = 0
  /\ \A r \in rets :
       r.op.name = "click" =>
         /\ ~r.out.ok => FailedAt(r)
         /\ r.out.ok => (calls[r.last].step = 3 /\ calls[r.last].out.ok)

(* one click failed at its mouse-move step, and no press or release was   *)
(* sent for it; a later click went through all three steps                 *)
C15_Witness ==
  \E r, q \in rets :
    /\ r.op.name = "click" /\ r.out.kind = "RemoteError"
    /\ calls[r.last].step = 1 /\ calls[r.last].params.event = "mouseMoved"
    /\ q.op.name = "click" /\ q.out.ok
    /\ Len(Chain(q.last)) = 3
    /\ Len(calls) = 4

(* C16: screenshot sends the capture command only after the activate      *)
(* command for the handle's own target was answered successfully; when the *)
(* activation fails screenshot returns that error and sends no capture.    *)
C16_ActivateFirst ==
  /\ \A k \in Calls :
       calls[k].op = "screenshot" =>
         /\ IsCommand(k)
         /\ calls[k].step \in 1..2
         /\ calls[k].step = 1 =>
              /\ calls[k].method = "Target.activateTarget"
              /\ calls[k].params.target_id = TargetIdOf(calls[k].handle)
              /\ calls[k].after = 0
         /\ calls[k].step = 2 =>
              /\ calls[k].method = "Page.captureScreenshot"
              /\ FollowsAnswered(k, calls[k].after)
  /\ \A r \in rets :
       r.op.name = "screenshot" =>
         /\ ~r.out.ok => FailedAt(r)
         /\ r.out.ok =>
              (calls[r.last].step = 2 /\ calls[r.last].out.ok
                 /\ calls[r.last].method = "Page.captureScreenshot")

(* a screenshot failed at its activation and sent no capture; another one *)
(* captured after its activation was answered                              *)
C16_Witness ==
  \E r, q \in rets :
    /\ r.op.name = "screenshot" /\ ~r.out.ok
    /\ calls[r.last].method = "Target.activateTarget"
    /\ calls[r.last].fulfils = 1
    /\ q.op.name = "screenshot" /\ q.out.ok
    /\ calls[q.last].method = "Page.captureScreenshot"
    /\ Cardinality({k \in Calls : calls[k].method = "Page.captureScreenshot"}) = 1

(* C17: no operation changes a handle: target_id() and session_id() keep  *)
(* returning the values the handle was constructed with, and every Command *)
(* message on a handle's mailbox carries that handle's SessionId as its    *)
(* session tag (the other messages carry none).                            *)
C17_HandleImmutable ==
  \A h \in Handles :
    /\ target_id(h) = TargetIdOf(h)
    /\ session_id(h) = SessionIdOf(h)
    /\ \A i \in 1..Len(mailbox[h]) :
         /\ calls[mailbox[h][i].tx].handle = h
         /\ mailbox[h][i].type = "Command" =>
              mailbox[h][i].session = Some(SessionIdOf(h))
         /\ mailbox[h][i].type # "Command" => mailbox[h][i].session = None

(* after a failed operation on one page, commands of both pages are      *)
(* queued, each with its own page's tag                                    *)
C17_Witness ==
  \E h, g \in Handles :
       /\ h # g
       /\ \E r \in rets : r.handle = h /\ r.out.kind = "RemoteError"
       /\ mailbox[h] # <<>> /\ mailbox[g] # <<>>
       /\ Head(mailbox[h]).session = Some(SessionIdOf(h))
       /\ Head(mailbox[g]).session = Some(SessionIdOf(g))
       /\ Head(mailbox[h]).session # Head(mailbox[g]).session

(* C18: an evaluate wrapper called with a context id sends its evaluation *)
(* command at once with that id and never a resolution; called without    *)
(* one it sends exactly one resolution, for the Main world, and sends the  *)
(* evaluation command only after that resolution was answered, with the    *)
(* value it resolved to; a failed resolution ends the call with its error  *)
(* and no evaluation command.                                               *)
Supplied == {Some(c) : c \in UserContextIds}
C18_DefaultsToMain ==
  /\ \A k \in Calls :
       calls[k].op \in EvalOps =>
         /\ IsResolve(k) =>
              (calls[k].world = "Main" /\ calls[k].after = 0 /\ calls[k].step = 1)
         /\ (IsCommand(k) /\ calls[k].after = 0) => calls[k].ctxid \in Supplied
         /\ (IsCommand(k) /\ calls[k].after # 0) =>
              LET r == calls[k].after
              IN /\ r < k /\ IsResolve(r) /\ calls[r].op = calls[k].op
                 /\ Returned(r) /\ calls[r].out.ok /\ calls[r].fulfils = 1
                 /\ calls[k].ctxid = calls[r].val.v
                 /\ calls[k].ctxid \notin Supplied
                 /\ Cardinality(Successors(r)) = 1
         /\ (IsResolve(k) /\ Returned(k) /\ ~calls[k].out.ok) =>
              /\ Successors(k) = {}
              /\ \E r \in rets : r.last = k /\ r.out = calls[k].out
  /\ \A t \in Tasks :
       (pc[t] # "idle" /\ op[t].name \in EvalOps) =>
         IF op[t].ctxArg # None
           THEN /\ IsCommand(cur[t]) /\ calls[cur[t]].after = 0
                /\ calls[cur[t]].ctxid = op[t].ctxArg
           ELSE IsResolve(cur[t]) \/ calls[cur[t]].after # 0
  /\ \A r \in rets :
       r.op.name \in EvalOps =>
         IF r.op.ctxArg # None
           THEN /\ Chain(r.last) = <<r.last>> /\ IsCommand(r.last)
                /\ calls[r.last].ctxid = r.op.ctxArg
           ELSE /\ IsResolve(Chain(r.last)[1])
                /\ Len(Chain(r.last)) <= 2

(* an evaluation with a supplied id returned after a single command       *)
(* carrying that id, and one without an id ran with the Main world's       *)
(* context id that its resolution returned                                  *)
C18_Witness ==
  \E r, q \in rets :
    /\ r.op.name \in EvalOps /\ r.op.ctxArg \in Supplied /\ r.out.ok
    /\ calls[r.last].ctxid = r.op.ctxArg
    /\ q.op.name \in EvalOps /\ q.op.ctxArg = None /\ q.out.ok
    /\ Len(Chain(q.last)) = 2
    /\ calls[q.last].ctxid # None
    /\ calls[q.last].ctxid = calls[Chain(q.last)[1]].out.v
    /\ calls[q.last].ctxid = ctx[q.handle]["Main"]

(* C20: a type_str that fails has pressed, completely and in order,       *)
(* exactly the characters before the first failing one: it returns the     *)
(* key-not-found error of the first character without a definition, or     *)
(* the error of the first failed down or up command; of the failing        *)
(* character the up event was sent only after its down event was answered  *)
(* successfully, and nothing is sent for any later character.              *)
C20_StopsAtFirstFailure ==
  /\ \A j \in Calls :
       (calls[j].op = "type_str" /\ calls[j].step > 1) =>
         FollowsAnswered(j, calls[j].after)
  /\ \A r \in rets :
       (r.op.name = "type_str" /\ ~r.out.ok) =>
         LET input == r.op.input
             ch == Chain(r.last)
             n == Len(ch)
             k == IF r.out.kind = "KeyNotFound" THEN (n \div 2) + 1
                  ELSE (n + 1) \div 2
         IN /\ k \in 1..Len(input)
            /\ \A i \in 1..(k - 1) : input[i] \in KeyNames
            /\ PressesOf(ch, input, k - 1)
            /\ \A j \in Calls : calls[j].after # r.last
            /\ IF r.out.kind = "KeyNotFound"
                 THEN /\ input[k] \notin KeyNames
                      /\ r.out = KeyNotFound(input[k])
                      /\ n = 2 * (k - 1)
                      /\ n > 0 => (Returned(ch[n]) /\ calls[ch[n]].out.ok)
                 ELSE /\ FailedAt(r)
                      /\ input[k] \in KeyNames
                      /\ n \in {2 * k - 1, 2 * k}
                      /\ IsKeyCommand(ch[n], input[k], IF n = 2 * k THEN 2 ELSE 1)
                      /\ calls[ch[n]].sent = 0 <=> r.out = SendErr
                      /\ n = 2 * k =>
                           /\ IsKeyEvent(ch[n - 1], input[k], 1)
                           /\ Returned(ch[n - 1]) /\ calls[ch[n - 1]].out.ok

(* one type_str stopped at its second character, which has no key         *)
(* definition, after the complete press of the first; another one failed   *)
(* at the down command of its first character and sent no up event          *)
C20_Witness ==
  \E r, q \in rets :
    /\ r.op.name = "type_str" /\ r.out.kind = "KeyNotFound"
    /\ Len(r.op.input) = 3 /\ Len(Chain(r.last)) = 2
    /\ calls[r.last].params.event = "keyUp"
    /\ q.op.name = "type_str" /\ q.out.kind = "RemoteError"
    /\ Len(Chain(q.last)) = 1
    /\ \A j \in Calls : calls[j].params.key # "i"

(* C19: with an actor that keeps taking messages and in the end answers   *)
(* or drops every token, every call that was issued returns unless its     *)
(* caller drops it, however many callers are queued or parked at the       *)
(* mailbox of the handle; in particular no caller stays suspended at its   *)
(* send, and a caller is parked only while its own message is queued       *)
(* behind the buffer.                                                       *)
C19_EveryCallReturns ==
  /\ [](\A t \in Tasks :
          (pc[t] = "flush" /\ ~FlushReady(calls[cur[t]].handle, cur[t])) =>
            Pos(Queued(calls[cur[t]].handle), cur[t]) > Buffer)
  /\ \A k \in 1..MaxCalls :
       (k \in Calls /\ calls[k].sent = 1 /\ calls[k].outs = 0 /\ calls[k].rx)
         ~> (k \in Calls /\ (calls[k].outs = 1 \/ Discarded(k)))
  /\ \A t \in Tasks : (pc[t] = "flush") ~> (pc[t] # "flush")

(* one call has returned its answer while two callers contend for the     *)
(* mailbox: one is parked at its send behind the message of the other      *)
C19_Witness ==
  \E t, u \in Tasks :
    /\ t # u
    /\ pc[t] = "flush" /\ Pos(parked[calls[cur[t]].handle], cur[t]) # 0
    /\ pc[u] = "recv" /\ calls[cur[u]].at = "mailbox"
    /\ calls[cur[u]].handle = calls[cur[t]].handle
    /\ \E k \in Calls : Returned(k) /\ calls[k].out.ok

====
